---- MODULE Spec2Model ----
\* A model of np_animation (src/np_animation/np_animation.py): the colour
\* model, the animation function library, the keyframe engine and the
\* NPAnimation controller.
\*
\* Three specifications share the variables:
\*   Spec       the controller: construction, update_leds, leds_off, the clock
\*   SpecAnim   the animation library: constructors of closures over (shared,
\*              mutable) keyframe lists, and calls of the closures
\*   SpecColor  the pure colour conversion rgb_to_hsl
\*
\* Floating point: the source computes with floats.  The model computes the
\* same expressions in exact rational arithmetic (numerator and denominator
\* kept apart).  round() rounds half to even; where the exact value of
\* rgb_to_hsl is a tie, the float may sit on either side of it, and the model
\* allows both neighbours.
EXTENDS Integers, Sequences, FiniteSets, TLC

VARIABLES
    now,          \* utime.ticks_ms(): the millisecond counter, wrapping
    ctl,          \* "none" | "ok" | "failed": outcome of NPAnimation(...)
    n_leds,       \* the n_leds handed to NeoPixel(Pin(pin), n_leds)
    np_buf,       \* self.np.buf: the bytearray of the NeoPixel object
    light_funcs,  \* self.light_funcs: sequence of [pos, func] bindings
    start_time,   \* self.start_time
    trace,        \* what the last controller operation did, in order
    last,         \* the last controller operation and its arguments
    heap,         \* the keyframe list objects, by identity
    anims,        \* the constructor calls made so far: closure and input
    call          \* the last call of a library function and its result

vars == <<now, ctl, n_leds, np_buf, light_funcs, start_time, trace, last,
          heap, anims, call>>

ctlVars == <<ctl, n_leds, np_buf, light_funcs, start_time, trace, last>>

-----------------------------------------------------------------------------
\* Bounds of the model.

MaxLeds == 2        \* n_leds given to the constructor ranges over 0..MaxLeds
MaxBindings == 2    \* length of light_funcs
MaxTime == 2        \* explicit time argument of update_leds: 0..MaxTime
TicksPeriod == 4    \* the period after which utime.ticks_ms() wraps
MaxGrow == 3        \* update_leds is followed while the buffer is at most this much too long
MaxAnims == 2       \* closures constructed in SpecAnim
MaxCallTime == 3    \* time argument of a direct call of a closure
MaxPeriod == 2      \* period argument of hue_shift: 0..MaxPeriod
MaxOffset == 1      \* offset argument of hue_shift: 0..MaxOffset

None == -1          \* encoding of Python's None for the optional time

-----------------------------------------------------------------------------
\* Helpers and the colour model.

Abs(x) == IF x < 0 THEN -x ELSE x

Max2(a, b) == IF a >= b THEN a ELSE b

Min2(a, b) == IF a <= b THEN a ELSE b

\* round(n / d) for n >= 0, d > 0: Python rounds half to even.
Round(n, d) ==
    LET q == n \div d
        r == n % d
    IN  IF 2 * r < d THEN q
        ELSE IF 2 * r > d THEN q + 1
        ELSE IF q % 2 = 0 THEN q ELSE q + 1

clamp(value, min_value, max_value) == Max2(min_value, Min2(max_value, value))

\* __saturate on a rational v / d: the numerator clamped to [0, d].
saturate(v, d) == clamp(v, 0, d)

\* __hue_to_rgb(h) for h = hn / hd: the three numerators over hd.
hue_to_rgb(hn, hd) ==
    <<saturate(Abs(hn * 6 - 3 * hd) - hd, hd),
      saturate(2 * hd - Abs(hn * 6 - 2 * hd), hd),
      saturate(2 * hd - Abs(hn * 6 - 4 * hd), hd)>>

RECURSIVE Gcd(_, _)
Gcd(a, b) == IF b = 0 THEN a ELSE Gcd(b, a % b)

\* hsl_to_rgb(h, s, l) for the rational hue h = hn / hd and integer s, l.
\*   h / 359.0 = hn / (359 hd);  c = (1 - |2l/100 - 1|) * s/100 = cn / 10000
\*   channel = (x/D - 1/2) * c + l/100
\*           = ((2x - D) * (cn/2) + 100 * l * D) / (10000 * D)     (cn is even)
\* The fraction is reduced before it is scaled by 255 and rounded.
hsl_to_rgb(hn, hd, s, l) ==
    LET D == 359 * hd
        x == hue_to_rgb(hn, D)
        cn == (100 - Abs(2 * l - 100)) * s
        num(i) == (2 * x[i] - D) * (cn \div 2) + 100 * l * D
        den == 10000 * D
        chan(i) == LET k == Gcd(den, num(i))
                   IN  Max2(0, Min2(255, Round(255 * (num(i) \div k), den \div k)))
    IN  <<chan(1), chan(2), chan(3)>>

\* The dict literal {r: .., g: .., b: ..}[high] of rgb_to_hsl: with equal keys
\* the later entry replaces the earlier one, so b wins over g wins over r.
\* The value is the numerator of h * 6 over d.
hue_sector(r, g, b, high, d) ==
    IF b = high THEN (r - g) + 4 * d
    ELSE IF g = high THEN (b - r) + 2 * d
    ELSE (g - b) + (IF g < b THEN 6 * d ELSE 0)

\* round(n / d) where the float quotient may sit on either side of an exact
\* tie: the set of values round() can return.
RoundAny(n, d) ==
    IF 2 * (n % d) = d THEN {n \div d, n \div d + 1} ELSE {Round(n, d)}

\* h_deg = h * 360.0, set to 0.0 when >= 360.0, then rounded.  h = h6n/(6 d).
hue_degrees(h6n, d) ==
    IF 60 * h6n >= 360 * d THEN {0} ELSE RoundAny(60 * h6n, d)

\* rgb_to_hsl(r, g, b) for integers r, g, b: channels are x / 255.  The set of
\* tuples the function can return (one tuple, except on a rounding tie).
rgb_to_hsl(r, g, b) ==
    LET high == Max2(r, Max2(g, b))
        low == Min2(r, Min2(g, b))
        l100 == RoundAny(100 * (high + low), 510)
    IN  IF high = low THEN {<<0, 0, l>> : l \in l100}
        ELSE LET d == high - low
                 sden == IF high + low > 255 THEN 510 - high - low ELSE high + low
             IN  {<<h, s, l>> : h \in hue_degrees(hue_sector(r, g, b, high, d), d),
                                s \in RoundAny(100 * d, sden),
                                l \in l100}

to_grb(rgb) == <<rgb[2], rgb[1], rgb[3]>>

from_grb(grb) == <<grb[2], grb[1], grb[3]>>

\* class grb: colours as byte strings.
OFF == <<0, 0, 0>>
WHITE == <<255, 255, 255>>
RED == <<0, 255, 0>>
BLUE == <<0, 0, 255>>

-----------------------------------------------------------------------------
\* The animation function library.  A closure is a record of its kind and the
\* values it captured; calling it yields
\*   [type |-> "bytes", bytes |-> b]   a single colour
\*   [type |-> "list", list |-> l]     a list of colours
\*   [type |-> "raise", exc |-> e]     an exception

Bytes(b) == [type |-> "bytes", bytes |-> b]

List(l) == [type |-> "list", list |-> l]

Raise(e) == [type |-> "raise", exc |-> e]

switch(on, off, name) == [kind |-> "switch", on |-> on, off |-> off, name |-> name]

switch_func(f, time, kwargs) ==
    LET sw == IF f.name \in DOMAIN kwargs THEN kwargs[f.name] ELSE TRUE
    IN  Bytes(IF sw THEN f.on ELSE f.off)

delayed_switch(on, off, delay) ==
    [kind |-> "delayed_switch", on |-> on, off |-> off, delay |-> delay]

delayed_switch_func(f, time, kwargs) ==
    Bytes(IF time < f.delay THEN f.on ELSE f.off)

hue_shift(period, offset) ==
    [kind |-> "hue_shift", period |-> period, offset |-> offset]

\* ((time + offset) % period) / period * 360 is the rational 360 m / period.
hue_shift_func(f, time, kwargs) ==
    IF f.period = 0 THEN Raise("ZeroDivisionError")
    ELSE Bytes(to_grb(hsl_to_rgb(360 * ((time + f.offset) % f.period),
                                 f.period, 100, 50)))

\* list.reverse()
Reverse(l) == [i \in 1..Len(l) |-> l[Len(l) + 1 - i]]

\* The heap after keyframes(frames): frames.reverse() acts on the caller's list.
keyframes_heap(hp, frames) == [hp EXCEPT ![frames] = Reverse(@)]

\* period = frames[0][0], 1 if that is 0 (read after the reversal).
first_time_period(l) == IF l[1][1] = 0 THEN 1 ELSE l[1][1]

\* The closure keyframes(frames) returns; hp is the heap after the reversal.
keyframes(hp, frames) ==
    [kind |-> "keyframes", frames |-> frames,
     period |-> first_time_period(hp[frames])]

\* for frame_time, pixels in frames: if tm >= frame_time: ...; break
\* The index of the frame the loop breaks at, 0 when it runs to its end.
RECURSIVE scan_index(_, _, _)
scan_index(l, i, tm) ==
    IF i > Len(l) THEN 0
    ELSE IF tm >= l[i][1] THEN i
    ELSE scan_index(l, i + 1, tm)

\* result = [grb.OFF] unless the loop assigned pixels.
scan(l, tm) ==
    LET i == scan_index(l, 1, tm) IN IF i = 0 THEN <<OFF>> ELSE l[i][2]

\* The mutant of keyframes_func that forgets the modulo.
keyframes_func_nomod(f, time, kwargs, hp) ==
    List(scan(hp[f.frames], time))

keyframes_func(f, time, kwargs, hp) ==
    List(scan(hp[f.frames], time % f.period))

\* The heap after keyframes_dict(frames_dict): every value is reversed, in
\* dictionary order; a list object that is the value of n keys is reversed n
\* times.  frames_dict is the sequence of its <<key, list>> items.
RECURSIVE keyframes_dict_heap(_, _, _)
keyframes_dict_heap(hp, frames_dict, k) ==
    IF k > Len(frames_dict) THEN hp
    ELSE keyframes_dict_heap([hp EXCEPT ![frames_dict[k][2]] = Reverse(@)],
                             frames_dict, k + 1)

keyframes_dict(frames_dict, name) ==
    [kind |-> "keyframes_dict", frames_dict |-> frames_dict, name |-> name]

keyframes_dict_func(f, time, kwargs, hp) ==
    IF f.name \in DOMAIN kwargs
       /\ \E k \in 1..Len(f.frames_dict) : f.frames_dict[k][1] = kwargs[f.name]
    THEN LET k == CHOOSE k \in 1..Len(f.frames_dict) :
                      f.frames_dict[k][1] = kwargs[f.name]
             frames == hp[f.frames_dict[k][2]]
         IN  List(scan(frames, time % first_time_period(frames)))
    ELSE List(<<OFF>>)

\* func(time, **kwargs) for a closure of any kind.
CallFunc(f, time, kwargs, hp) ==
    CASE f.kind = "switch" -> switch_func(f, time, kwargs)
      [] f.kind = "delayed_switch" -> delayed_switch_func(f, time, kwargs)
      [] f.kind = "hue_shift" -> hue_shift_func(f, time, kwargs)
      [] f.kind = "keyframes" -> keyframes_func(f, time, kwargs, hp)
      [] f.kind = "keyframes_dict" -> keyframes_dict_func(f, time, kwargs, hp)

\* The keyframe list objects of the model as their creator wrote them
\* (ascending timestamps, as EMERGENCY_1 is): list 1 has a timestamp-0
\* frame, list 2 has none, list 3 has only a timestamp-0 frame.
HeapInit ==
    <<  << <<0, <<RED, OFF, BLUE>>>>, <<1, <<RED>>>>, <<2, <<OFF, BLUE>>>>,
           <<3, <<OFF>>>> >>,
        << <<1, <<BLUE>>>>, <<3, <<RED, RED>>>> >>,
        << <<0, <<WHITE>>>> >>  >>

ListIds == DOMAIN HeapInit

-----------------------------------------------------------------------------
\* SpecAnim: the library used directly.  Constructors may be handed any list
\* object, also one an earlier constructor was handed (as the module-level
\* EMERGENCY_1 is when two animations are built from it).

NoCtl ==
    /\ now = 0
    /\ ctl = "none"
    /\ n_leds = 0
    /\ np_buf = <<>>
    /\ light_funcs = <<>>
    /\ start_time = 0
    /\ trace = <<>>
    /\ last = [op |-> "none"]

InitAnim ==
    /\ NoCtl
    /\ heap = HeapInit
    /\ anims = {}
    /\ call = [op |-> "none"]

\* The frames_dict arguments: two keys with the same list object; two keys
\* with different list objects.
DictArgs ==
    {  << <<"a", 1>>, <<"b", 1>> >>,
       << <<"a", 1>>, <<"b", 2>> >>,
       << <<"a", 2>>, <<"b", 3>> >>  }

AnimKwargs == {<<>>, [animation |-> "a"], [animation |-> "b"], [animation |-> "c"]}

\* anims logs each constructor call: the closure returned (f) and the value
\* of every list argument when the constructor was entered (input).
Keyframes(frames) ==
    /\ Cardinality(anims) < MaxAnims
    /\ heap' = keyframes_heap(heap, frames)
    /\ anims' = anims \cup {[f |-> keyframes(heap', frames),
                               input |-> <<heap[frames]>>]}
    /\ call' = [op |-> "none"]
    /\ UNCHANGED <<now, ctlVars>>

KeyframesDict(frames_dict) ==
    /\ Cardinality(anims) < MaxAnims
    /\ heap' = keyframes_dict_heap(heap, frames_dict, 1)
    /\ anims' = anims \cup
                  {[f |-> keyframes_dict(frames_dict, "animation"),
                    input |-> [k \in 1..Len(frames_dict) |-> heap[frames_dict[k][2]]]]}
    /\ call' = [op |-> "none"]
    /\ UNCHANGED <<now, ctlVars>>

HueShift(period, offset) ==
    /\ Cardinality(anims) < MaxAnims
    /\ anims' = anims \cup {[f |-> hue_shift(period, offset), input |-> <<>>]}
    /\ call' = [op |-> "none"]
    /\ UNCHANGED <<now, ctlVars, heap>>

CallAnim(a, time, kwargs) ==
    /\ call' = [op |-> "call", fn |-> a, time |-> time, kwargs |-> kwargs,
                result |-> CallFunc(a.f, time, kwargs, heap)]
    /\ UNCHANGED <<now, ctlVars, heap, anims>>

NextAnim ==
    \/ \E frames \in ListIds : Keyframes(frames)
    \/ \E frames_dict \in DictArgs : KeyframesDict(frames_dict)
    \/ \E period \in 0..MaxPeriod, offset \in 0..MaxOffset : HueShift(period, offset)
    \/ \E a \in anims, time \in 0..MaxCallTime, kwargs \in AnimKwargs :
          CallAnim(a, time, kwargs)

SpecAnim == InitAnim /\ [][NextAnim]_vars

-----------------------------------------------------------------------------
\* SpecColor: rgb_to_hsl applied to channel values.

Channel == {0, 1, 2, 39, 72, 128, 254, 255}

InitColor ==
    /\ NoCtl
    /\ heap = HeapInit
    /\ anims = {}
    /\ call = [op |-> "none"]

RgbToHsl(r, g, b) ==
    /\ \E res \in rgb_to_hsl(r, g, b) :
          call' = [op |-> "rgb_to_hsl", args |-> <<r, g, b>>, result |-> res]
    /\ UNCHANGED <<now, ctlVars, heap, anims>>

NextColor == \E r \in Channel, g \in Channel, b \in Channel : RgbToHsl(r, g, b)

SpecColor == InitColor /\ [][NextColor]_vars

-----------------------------------------------------------------------------
\* The controller, class NPAnimation.

\* utime.ticks_diff(new, old): the signed difference of two wrapping ticks,
\* in [-TicksPeriod/2, TicksPeriod/2).
ticks_diff(new, old) ==
    LET half == TicksPeriod \div 2
    IN  ((new - old + half) % TicksPeriod) - half

\* buf[start:stop] = v on a bytearray: the slice bounds are clipped to the
\* length, the slice is replaced by v and the bytearray takes the new length.
SliceAssign(buf, start, stop, v) ==
    LET a == Min2(start, Len(buf))
        b == Max2(a, Min2(stop, Len(buf)))
    IN  SubSeq(buf, 1, a) \o v \o SubSeq(buf, b + 1, Len(buf))

\* An exception leaves update_leds: nothing after the raising statement runs.
propagate(buf, tr, exc) ==
    [buf |-> buf, trace |-> Append(tr, [ev |-> "raise", exc |-> exc]),
     raised |-> TRUE]

\* if type(grb) == bytes: for pos in led_positions: buf[pos*3 : pos*3+3] = grb
RECURSIVE write_bytes(_, _, _, _, _, _)
write_bytes(buf, tr, j, led_positions, k, grb) ==
    IF k > Len(led_positions) THEN [buf |-> buf, trace |-> tr, raised |-> FALSE]
    ELSE LET pos == led_positions[k]
         IN  write_bytes(SliceAssign(buf, pos * 3, pos * 3 + 3, grb),
                         Append(tr, [ev |-> "set", j |-> j, pos |-> pos, grb |-> grb]),
                         j, led_positions, k + 1, grb)

\* The mutant of next_index that compares with > instead of >=.
next_index_late(i, n) == IF i + 1 > n THEN 0 ELSE i + 1

\* i += 1; if i >= len(grb): i = 0
next_index(i, n) == IF i + 1 >= n THEN 0 ELSE i + 1

\* if type(grb) == list: the loop over led_positions with the index i into
\* grb (0-based, as in the source); grb[i] raises IndexError past the end.
RECURSIVE write_list(_, _, _, _, _, _, _)
write_list(buf, tr, j, led_positions, k, i, grb) ==
    IF k > Len(led_positions) THEN [buf |-> buf, trace |-> tr, raised |-> FALSE]
    ELSE IF i >= Len(grb) THEN propagate(buf, tr, "IndexError")
    ELSE LET pos == led_positions[k]
         IN  write_list(SliceAssign(buf, pos * 3, pos * 3 + 3, grb[i + 1]),
                        Append(tr, [ev |-> "set", j |-> j, pos |-> pos,
                                    grb |-> grb[i + 1]]),
                        j, led_positions, k + 1, next_index(i, Len(grb)), grb)

\* The mutant of finish that writes to the strip also after an exception.
finish_always(r) ==
    [r EXCEPT !.trace = Append(@, [ev |-> "np.write", buf |-> r.buf])]

\* self.np.write() after the loop: reached only when nothing raised.
finish(r) ==
    IF r.raised THEN r
    ELSE [r EXCEPT !.trace = Append(@, [ev |-> "np.write", buf |-> r.buf])]

\* for led_positions, func in self.light_funcs: ... from binding j on.
RECURSIVE bindings_loop(_, _, _, _, _, _, _)
bindings_loop(funcs, j, buf, tr, time, kwargs, hp) ==
    IF j > Len(funcs) THEN [buf |-> buf, trace |-> tr, raised |-> FALSE]
    ELSE LET grb == CallFunc(funcs[j].func, time, kwargs, hp)
             tr1 == Append(tr, [ev |-> "call", j |-> j, time |-> time,
                                result |-> grb])
             r == CASE grb.type = "raise" -> propagate(buf, tr1, grb.exc)
                    [] grb.type = "bytes" ->
                         write_bytes(buf, tr1, j, funcs[j].pos, 1, grb.bytes)
                    [] grb.type = "list" ->
                         write_list(buf, tr1, j, funcs[j].pos, 1, 0, grb.list)
         IN  IF r.raised THEN r
             ELSE bindings_loop(funcs, j + 1, r.buf, r.trace, time, kwargs, hp)

\* if not time: None and 0 are both false.
not_time(time) == time = None \/ time = 0

\* The time update_leds hands to the functions.
effective_time(time) ==
    IF not_time(time) THEN ticks_diff(now, start_time) ELSE time

\* max(seq) of Python: the maximum, or ValueError on an empty sequence
\* (encoded as None).
RECURSIVE max_of(_, _)
max_of(seq, k) ==
    IF k > Len(seq) THEN None ELSE Max2(seq[k], max_of(seq, k + 1))

\* NPAnimation(light_funcs, n_leds=n): max([...]) raises ValueError when
\* n == 0 and light_funcs or one of its position lists is empty; nothing
\* else is checked.
Construct(funcs, n) ==
    /\ ctl # "ok"
    /\ LET raises == n = 0 /\ (funcs = <<>> \/ \E j \in 1..Len(funcs) :
                                                  funcs[j].pos = <<>>)
           derived == IF n = 0
                      THEN max_of([j \in 1..Len(funcs) |-> max_of(funcs[j].pos, 1)], 1) + 1
                      ELSE n
       IN  IF raises
           THEN /\ ctl' = "failed"
                /\ UNCHANGED <<n_leds, np_buf, light_funcs, start_time>>
           ELSE /\ ctl' = "ok"
                /\ n_leds' = derived
                /\ np_buf' = [i \in 1..(3 * derived) |-> 0]
                /\ light_funcs' = funcs
                /\ start_time' = now
    /\ trace' = <<>>
    /\ last' = [op |-> "construct", light_funcs |-> funcs, n_leds |-> n]
    /\ UNCHANGED <<now, heap, anims, call>>

\* leds_off(): np.fill((0, 0, 0)) zeroes every byte of the buffer; np.write().
LedsOff ==
    /\ ctl = "ok"
    /\ np_buf' = [i \in 1..Len(np_buf) |-> 0]
    /\ trace' = <<[ev |-> "np.write", buf |-> np_buf']>>
    /\ last' = [op |-> "leds_off"]
    /\ UNCHANGED <<now, ctl, n_leds, light_funcs, start_time, heap, anims, call>>

\* update_leds(time, **kwargs), the whole call.
UpdateLeds(time, kwargs) ==
    /\ ctl = "ok"
    /\ Len(np_buf) <= 3 * n_leds + MaxGrow
    /\ LET t == effective_time(time)
           r == finish(bindings_loop(light_funcs, 1, np_buf, <<>>, t, kwargs, heap))
       IN  /\ np_buf' = r.buf
           /\ trace' = r.trace
           /\ last' = [op |-> "update_leds", time |-> time, kwargs |-> kwargs,
                       raised |-> r.raised]
    /\ UNCHANGED <<now, ctl, n_leds, light_funcs, start_time, heap, anims, call>>

\* A millisecond passes; the counter wraps.  Only differences of the counter
\* are ever used, so it is followed from the construction (at 0) on.
ClockTick ==
    /\ ctl = "ok"
    /\ now' = (now + 1) % TicksPeriod
    /\ UNCHANGED <<ctlVars, heap, anims, call>>

\* Colours that are not three bytes long (a two-byte string).
SHORT == <<255, 255>>

\* The keyframe lists of the controller's animations as written: list 1 of
\* HeapInit, and a list with a frame without colours and a frame whose
\* colour is two bytes long.
CtlLists ==
    << HeapInit[1],
       << <<0, <<>>>>, <<1, <<SHORT>>>>, <<2, <<OFF>>>> >> >>

\* The heap once keyframes() was called on each list.
CtlHeap == keyframes_heap(keyframes_heap(CtlLists, 1), 2)

\* The bindings a light_funcs argument is made of: a switch on two LEDs, a
\* delayed switch on one of them (its delay elapses before the clock is
\* half-way round), a keyframe animation on four positions
\* (one LED twice), the keyframe animation with the odd colours, and a
\* hue_shift of period 0, which raises when called, without positions.
Bindings ==
    { [pos |-> <<0, 1>>,       func |-> switch(WHITE, OFF, "switch")],
      [pos |-> <<1>>,          func |-> delayed_switch(RED, OFF, 1)],
      [pos |-> <<2, 0, 1, 0>>, func |-> keyframes(CtlHeap, 1)],
      [pos |-> <<0>>,          func |-> keyframes(CtlHeap, 2)],
      [pos |-> <<>>,           func |-> hue_shift(0, 0)] }

LightFuncs ==
    UNION {[1..m -> Bindings] : m \in 0..MaxBindings}

CtlKwargs == {<<>>, [switch |-> FALSE]}

Init ==
    /\ NoCtl
    /\ heap = CtlHeap
    /\ anims = {}
    /\ call = [op |-> "none"]

Next ==
    \/ \E funcs \in LightFuncs, n \in 0..MaxLeds : Construct(funcs, n)
    \/ \E time \in {None} \cup 0..MaxTime, kwargs \in CtlKwargs :
          UpdateLeds(time, kwargs)
    \/ LedsOff
    \/ ClockTick

Spec == Init /\ [][Next]_vars


-----------------------------------------------------------------------------
\* Properties of the controller (Spec).

Ticked == last.op = "update_leds"

\* The indices of the events of one kind in the trace of the last operation.
Events(kind) == {k \in 1..Len(trace) : trace[k].ev = kind}

\* The call event of binding j in the trace.
CallOf(j) == trace[CHOOSE k \in Events("call") : trace[k].j = j]

\* C1: update_leds called with an explicit time t, t = 0 included, invokes
\* every bound function with exactly t; the clock is used only when the
\* time is omitted.
C1_ExplicitTime ==
    (Ticked /\ last.time # None) =>
       \A k \in Events("call") : trace[k].time = last.time

\* The configurations the constructor is to reject: no binding, a binding
\* without positions, a position >= the declared n_leds.
Invalid(funcs, n) ==
    \/ funcs = <<>>
    \/ \E j \in 1..Len(funcs) : funcs[j].pos = <<>>
    \/ n # 0 /\ \E j \in 1..Len(funcs) : \E k \in 1..Len(funcs[j].pos) :
                   funcs[j].pos[k] >= n

\* C2: construction fails for every invalid configuration, with n_leds given
\* and with n_leds = 0.
C2_ConstructionFails ==
    (last.op = "construct" /\ Invalid(last.light_funcs, last.n_leds)) =>
       ctl = "failed"

\* C3: the buffer of a constructed controller is 3 * n_leds bytes long, after
\* the construction and after every update_leds and leds_off.
C3_BufferLength ==
    ctl = "ok" => Len(np_buf) = 3 * n_leds

\* The LED positions binding j names, and the last binding naming p.
PositionsOf(j) == {light_funcs[j].pos[k] : k \in 1..Len(light_funcs[j].pos)}
LastBinding(p) ==
    CHOOSE j \in 1..Len(light_funcs) :
       /\ p \in PositionsOf(j)
       /\ \A i \in (j + 1)..Len(light_funcs) : p \notin PositionsOf(i)

\* The colour binding j produced for position p: the single colour, or the
\* element of the sequence at the (last) place of p in the position list.
ColourFor(j, p) ==
    LET res == CallOf(j).result
        pos == light_funcs[j].pos
        k == CHOOSE k \in 1..Len(pos) :
                pos[k] = p /\ \A m \in (k + 1)..Len(pos) : pos[m] # p
    IN  IF res.type = "bytes" THEN res.bytes
        ELSE res.list[((k - 1) % Len(res.list)) + 1]

\* The calls of the last update_leds are those of bindings 1, 2, ... in order.
CallsInOrder ==
    \A k \in Events("call") :
       trace[k].j = Cardinality({m \in Events("call") : m <= k})

\* C4: after a completed update_leds the three buffer bytes of every bound
\* position p are the colour the last binding naming p produced for p, and
\* the bindings were evaluated in insertion order.
C4_LastBindingWins ==
    (Ticked /\ ~last.raised) =>
       /\ CallsInOrder
       /\ \A j \in 1..Len(light_funcs) : \A p \in PositionsOf(j) :
             /\ Len(np_buf) >= 3 * p + 3
             /\ SubSeq(np_buf, 3 * p + 1, 3 * p + 3) = ColourFor(LastBinding(p), p)

\* The slice assignments update_leds made for binding j, in order.
IsSet(e) == e.ev = "set"
SetsOf(j) ==
    LET sets == SelectSeq(trace, IsSet)
        mine == {k \in 1..Len(sets) : sets[k].j = j}
        nth(m) == CHOOSE k \in mine : Cardinality({i \in mine : i <= k}) = m
    IN  [m \in 1..Cardinality(mine) |-> sets[nth(m)]]

C8_RaiseOrCommit ==
    Ticked =>
       /\ CallsInOrder
       /\ last.raised <=> Events("raise") # {}
       /\ last.raised =>
             /\ Events("np.write") = {}
             /\ Events("raise") = {Len(trace)}
             /\ \A k \in Events("call") :
                   trace[k].result.type = "raise" => k = Len(trace) - 1
       /\ ~last.raised =>
             /\ Events("np.write") = {Len(trace)}
             /\ trace[Len(trace)].buf = np_buf
             /\ Cardinality(Events("call")) = Len(light_funcs)

\* The function of the second of two bindings raised after the first binding
\* had written its colours.
C8_Witness ==
    /\ Ticked /\ last.raised
    /\ Len(light_funcs) = 2
    /\ Events("set") # {}
    /\ trace[Len(trace) - 1].ev = "call"
    /\ trace[Len(trace) - 1].j = 2
    /\ trace[Len(trace) - 1].result.type = "raise"


\* A step that is a call of update_leds: the clock stands still during it.
TickStep == last'.op = "update_leds" /\ now' = now

\* The bindings of a delayed switch, and what the last update_leds, called
\* with the time omitted, got from binding j.
Delayed == {j \in 1..Len(light_funcs) : light_funcs[j].func.kind = "delayed_switch"}
OmittedTick == Ticked /\ last.time = None
Produced(j, grb) ==
    /\ OmittedTick
    /\ \E k \in Events("call") : trace[k].j = j /\ trace[k].result = Bytes(grb)

\* C11: with the time omitted a delayed switch gives on while the time
\* elapsed since the construction is below the delay, and once an
\* update_leds has produced off, the next update_leds with the time omitted
\* produces off as well, however far the clock has advanced in between.
C11_NeverBackOn ==
    [][\A j \in Delayed :
          /\ (TickStep /\ OmittedTick' /\ ticks_diff(now, start_time) < light_funcs[j].func.delay) =>
                ~Produced(j, light_funcs[j].func.off)'
          /\ (Produced(j, light_funcs[j].func.off) /\ TickStep /\ OmittedTick') =>
                ~Produced(j, light_funcs[j].func.on)']_vars


\* The bytes the buffer holds for LED position p (three, where the buffer
\* is long enough), by their place 1..3 within the position.
LedBytes(buf, p) ==
    [i \in {i \in 1..3 : 3 * p + i <= Len(buf)} |-> buf[3 * p + i]]

\* The positions of the bindings whose function returned a colour or a
\* sequence in the last update_leds.
Written ==
    UNION {PositionsOf(trace[k].j) :
              k \in {c \in Events("call") : trace[c].result.type \in {"bytes", "list"}}}

\* C12: update_leds changes the buffer bytes only of positions of bindings
\* whose function returned a colour or a sequence; the bytes of every other
\* LED keep their value (zero after the construction and after leds_off),
\* and neither light_funcs nor start_time changes.
C12_FrameCondition ==
    [][/\ TickStep =>
             /\ light_funcs' = light_funcs
             /\ start_time' = start_time
             /\ \A p \in (0..(n_leds - 1)) \ Written' :
                   LedBytes(np_buf', p) = LedBytes(np_buf, p)
       /\ (ctl' = "ok" /\ last'.op \in {"construct", "leds_off"}) =>
             \A i \in 1..Len(np_buf') : np_buf'[i] = 0]_vars


-----------------------------------------------------------------------------
\* Properties of the library (SpecAnim) and of the colour model (SpecColor).

IsAscending(l) == \A i \in 1..(Len(l) - 1) : l[i][1] < l[i + 1][1]

IsDescending(l) == \A i \in 1..(Len(l) - 1) : l[i][1] > l[i + 1][1]

\* The period of a timeline given as its ascending input list: the maximum
\* timestamp M, or 1 when M = 0.
TimelinePeriod(input) ==
    LET M == input[Len(input)][1] IN IF M >= 1 THEN M ELSE 1

\* The frames of input whose timestamp is <= time mod period.
Covering(input, time) ==
    {i \in 1..Len(input) : input[i][1] <= time % TimelinePeriod(input)}

\* The colours of the frame with the greatest timestamp <= time mod period;
\* the single off colour when there is none.
Lookup(input, time) ==
    LET S == Covering(input, time)
    IN  IF S = {} THEN <<OFF>>
        ELSE input[CHOOSE i \in S : \A j \in S : input[j][1] <= input[i][1]][2]

HasTimeZero(input) == \E i \in 1..Len(input) : input[i][1] = 0

Times == 0..MaxCallTime

\* C6: a keyframe animation built from an ascending list returns, at any time
\* t, the colours of the frame with the greatest timestamp <= t mod P (P the
\* maximum timestamp, 1 if that is 0), and never the off fallback when the
\* list has a timestamp-0 frame; so does keyframes_dict for each of its
\* timelines.
C6_KeyframeLookup ==
    \A a \in anims :
       /\ a.f.kind = "keyframes" /\ IsAscending(a.input[1]) =>
            \A t \in Times :
               /\ keyframes_func(a.f, t, <<>>, heap) = List(Lookup(a.input[1], t))
               /\ HasTimeZero(a.input[1]) =>
                     scan_index(heap[a.f.frames], 1, t % a.f.period) # 0
       /\ a.f.kind = "keyframes_dict" =>
            \A k \in 1..Len(a.input) : IsAscending(a.input[k]) =>
               \A t \in Times :
                  LET kw == [animation |-> a.f.frames_dict[k][1]]
                      frames == heap[a.f.frames_dict[k][2]]
                  IN  /\ keyframes_dict_func(a.f, t, kw, heap)
                            = List(Lookup(a.input[k], t))
                      /\ HasTimeZero(a.input[k]) =>
                            scan_index(frames, 1, t % first_time_period(frames)) # 0

\* The period the code uses for closure f under kwargs: the captured period,
\* or for keyframes_dict the period of the selected timeline.
PeriodOf(f, kwargs) ==
    CASE f.kind = "hue_shift" -> f.period
      [] f.kind = "keyframes" -> f.period
      [] f.kind = "keyframes_dict" ->
           IF f.name \in DOMAIN kwargs
              /\ \E k \in 1..Len(f.frames_dict) : f.frames_dict[k][1] = kwargs[f.name]
           THEN first_time_period(
                  heap[f.frames_dict[CHOOSE k \in 1..Len(f.frames_dict) :
                                        f.frames_dict[k][1] = kwargs[f.name]][2]])
           ELSE 1

\* C7: periodicity: func(t, params) = func(t + P, params) for a hue_shift of
\* period P and for a keyframe-based animation whose timeline period is P.
C7_Periodic ==
    \A a \in anims : \A t \in Times : \A kw \in AnimKwargs :
       CallFunc(a.f, t, kw, heap) = CallFunc(a.f, t + PeriodOf(a.f, kw), kw, heap)

\* A hue_shift and a keyframe animation, both of period >= 2, have been
\* constructed and one of them was called one period or more after time 0.
C7_Witness ==
    /\ \E a \in anims : a.f.kind = "hue_shift" /\ a.f.period >= 2
    /\ \E a \in anims : a.f.kind = "keyframes" /\ a.f.period >= 2
    /\ call.op = "call"
    /\ PeriodOf(call.fn.f, call.kwargs) >= 2
    /\ call.time >= PeriodOf(call.fn.f, call.kwargs)
    /\ call.result # CallFunc(call.fn.f, call.time + 1, call.kwargs, heap)

\* C10: a timeline is normalised once and never changes again: every list a
\* constructor was handed is the reversal of the list as it was written, and
\* every keyframes closure has the period of that list, however many
\* animations were built from it.
C10_NormalisedOnce ==
    \A a \in anims :
       /\ a.f.kind = "keyframes" =>
            /\ heap[a.f.frames] = Reverse(HeapInit[a.f.frames])
            /\ IsDescending(heap[a.f.frames])
            /\ a.f.period = TimelinePeriod(HeapInit[a.f.frames])
       /\ a.f.kind = "keyframes_dict" =>
            \A k \in 1..Len(a.f.frames_dict) :
               LET frames == a.f.frames_dict[k][2]
               IN  /\ heap[frames] = Reverse(HeapInit[frames])
                   /\ first_time_period(heap[frames]) = TimelinePeriod(HeapInit[frames])

\* C9: rgb_to_hsl returns h in 0..359, s and l in 0..100, and
\* (0, 0, round(r/255*100)) for a grey input.
C9_HslRange ==
    call.op = "rgb_to_hsl" =>
       /\ call.result[1] \in 0..359
       /\ call.result[2] \in 0..100
       /\ call.result[3] \in 0..100
       /\ (call.args[1] = call.args[2] /\ call.args[2] = call.args[3]) =>
             call.result = <<0, 0, Round(100 * call.args[1], 255)>>

====
